---------------------------- MODULE Spec2Model ----------------------------
(***************************************************************************)
(* The Kubernetes object cache of the agent (agent/src/managers/cache.rs): *)
(* nine reflector tasks, one per resource kind, keep nine stores in step   *)
(* with the API server's list+watch streams; the Pod, Node and Service     *)
(* tasks also write the IP -> Workload index, and the Pod task resolves    *)
(* each pod's owner-reference chain into a Workload that it memoizes in    *)
(* pod_descriptors.  A caller may wait for the nine stores to be ready.    *)
(*                                                                         *)
(* The API server, the watch streams and the errors they deliver are the   *)
(* environment: the variable env fixes, for one behaviour, which objects   *)
(* and which errors the API server may deliver.                            *)
(***************************************************************************)
EXTENDS Integers, Sequences, FiniteSets, TLC

VARIABLES
    env,              \* the cluster this behaviour runs against (environment)
    store,            \* the nine reflector stores: kind -> ((namespace, name) -> envelope)
    ready,            \* kind -> the store's ready flag (first list applied)
    task,             \* kind -> "running" | "done" (the spawned task returned, writer dropped)
    wstate,           \* kind -> the watcher's state: "Empty" (must list) | "Watching"
    pending,          \* kind -> objects of an applied list not yet yielded by the stream
    rvCache,          \* kind -> predicate_filter's cache: (namespace, name) -> resourceVersion
    pc,               \* kind -> where the task's handler stands
    cur,              \* kind -> the object the handler is processing (Option)
    walk,             \* resolve_pod_descriptor's locals: name, kind, owner_ref, entry
    pod_descriptors,  \* ObjectRef<Pod> -> Workload (the memoization cache)
    ip_to_workload,   \* IP string -> Workload
    syncState,        \* wait_for_cache_sync's caller: "idle" | "waiting" | "ok" | "err"
    syncIdx,          \* the store wait_for_cache_sync is waiting on (1..9)
    lookups,          \* history: store lookups made by the resolution in progress / last finished
    hist,             \* history: what the claims need to remember of past events
    budget,           \* history: watch events and transient errors delivered so far
    locks             \* the two index locks and where each task stands towards them

vars == << env, store, ready, task, wstate, pending, rvCache, pc, cur, walk,
           pod_descriptors, ip_to_workload, syncState, syncIdx, lookups, hist, budget,
           locks >>

\* Everything but the locks.
dataVars == << env, store, ready, task, wstate, pending, rvCache, pc, cur, walk,
               pod_descriptors, ip_to_workload, syncState, syncIdx, lookups, hist, budget >>

-----------------------------------------------------------------------------
(* Bounds of the model. *)

\* Watch events (Applied / Deleted) the API server delivers in one behaviour.
MaxEvents == 3
\* Transient watch errors the API server delivers in one behaviour.
MaxErrors == 1
\* Store lookups after which the model stops following a walk that has not ended.
MaxLookups == 10
\* The depth the specification promises for the owner walk (spec section 4.3).
MAX_DEPTH == 8

-----------------------------------------------------------------------------
(* Rust's Option, and maps with insert / remove. *)

None == << >>
Some(x) == << x >>
IsSome(o) == o # << >>
Unwrap(o) == o[1]

EmptyMap == << >>
Insert(m, k, v) == [x \in (DOMAIN m) \cup {k} |-> IF x = k THEN v ELSE m[x]]
Remove(m, k) == [x \in (DOMAIN m) \ {k} |-> m[x]]
Get(m, k) == IF k \in DOMAIN m THEN Some(m[k]) ELSE None

-----------------------------------------------------------------------------
(* Kinds and object envelopes. *)

IpKinds == {"Pod", "Node", "Service"}
CtrlKinds == {"ReplicaSet", "Deployment", "StatefulSet", "DaemonSet", "Job", "CronJob"}
Kinds == IpKinds \cup CtrlKinds

\* ObjectRef: the store key of an object, (namespace, name).
ObjectRef_from_obj(obj) == << obj.namespace, obj.name >>
\* ObjectRef::new(name).within(namespace)
ObjectRef_within(name, namespace) == << Some(namespace), name >>

Workload(name, namespace, kind) == [name |-> name, namespace |-> namespace, kind |-> kind]

\* refs.first(): the first owner reference, whatever its controller flag.
find_controller_first_owner(owner_references) ==
    IF ~IsSome(owner_references) \/ Unwrap(owner_references) = << >> THEN None
    ELSE Some(Head(Unwrap(owner_references)))

\* refs.iter().find(|r| r.controller == Some(true)) on Option<Vec<OwnerReference>>
find_controller(owner_references) ==
    IF ~IsSome(owner_references) THEN None
    ELSE LET refs == Unwrap(owner_references)
             hits == {i \in 1..Len(refs) : refs[i].controller = Some(TRUE)}
         IN  IF hits = {} THEN None
             ELSE Some(refs[CHOOSE i \in hits : \A j \in hits : i <= j])


\* An object as the reflector stores it, after the pruning transform (.modify):
\* metadata, and the status / spec fields the indexer reads.
Envelope(kind, namespace, name, rv, owner_references, status, spec) ==
    [kind |-> kind, namespace |-> namespace, name |-> name, resource_version |-> rv,
     owner_references |-> owner_references, status |-> status, spec |-> spec]

OwnerRef(kind, name, controller) == [kind |-> kind, name |-> name, controller |-> controller]
ControllerRef(kind, name) == OwnerRef(kind, name, Some(TRUE))

\* pod.namespace().unwrap_or_default()
namespace_or_default(obj) == IF IsSome(obj.namespace) THEN Unwrap(obj.namespace) ELSE ""

-----------------------------------------------------------------------------
(* The clusters the model runs against. *)

NS == "prod"

PodObj(name, rv, refs, ips) ==
    Envelope("Pod", Some(NS), name, rv, refs, Some([pod_ips |-> ips]), None)
CtrlObj(kind, name, refs) == Envelope(kind, Some(NS), name, 1, refs, None, None)
NodeObj(name, rv, addrs) ==
    Envelope("Node", None, name, rv, None, Some([addresses |-> addrs]), None)
SvcObj(name, rv, ips) ==
    Envelope("Service", Some(NS), name, rv, None, None, Some([cluster_ips |-> ips]))

PodIP(ip) == [ip |-> ip]
NodeAddress(a) == [address |-> a]

\* A cluster: the kinds whose API calls answer in this behaviour, the objects the
\* API server may list or send, the kinds that may see a transient watch error,
\* the kinds whose list is refused for good (authorization denied, or no such
\* resource kind), whether Client::try_default succeeds, and whether a caller
\* waits for the cache to sync.  The kinds of `fixed` do not change while the
\* program runs: each list of such a kind returns all its objects, and no watch
\* event follows.
Cluster(active, objs, transient, denied, clientOk, caller) ==
    [active |-> active, objs |-> objs, transient |-> transient, denied |-> denied,
     clientOk |-> clientOk, caller |-> caller, fixed |-> {}]

\* One controlled pod, in two resource versions, under a chain of controllers.
ChainCluster(podName, ip, podRef, ctrls) ==
    Cluster({"Pod"} \cup {c.kind : c \in ctrls},
            { PodObj(podName, 1, Some(<< podRef >>), Some(<< PodIP(Some(ip)) >>)),
              PodObj(podName, 2, Some(<< podRef >>), Some(<< PodIP(Some(ip)) >>)) } \cup ctrls,
            {}, {}, TRUE, FALSE)

DeploymentRollout ==
    ChainCluster("web-abc-1", "10.0.0.5", ControllerRef("ReplicaSet", "web-abc"),
        { CtrlObj("ReplicaSet", "web-abc", Some(<< ControllerRef("Deployment", "web") >>)),
          CtrlObj("Deployment", "web", None) })

CronJobHierarchy ==
    ChainCluster("nightly-27-x", "10.0.0.9", ControllerRef("Job", "nightly-27"),
        { CtrlObj("Job", "nightly-27", Some(<< ControllerRef("CronJob", "nightly") >>)),
          CtrlObj("CronJob", "nightly", None) })

\* Chains of length one: the pod's controller has no controller of its own.
SingleOwner(kind, name) ==
    ChainCluster("p-0", "10.0.0.7", ControllerRef(kind, name), { CtrlObj(kind, name, None) })

\* ReplicaSet a owned by ReplicaSet b owned by ReplicaSet a.
OwnerCycle ==
    ChainCluster("loop-1", "10.0.0.8", ControllerRef("ReplicaSet", "a"),
        { CtrlObj("ReplicaSet", "a", Some(<< ControllerRef("ReplicaSet", "b") >>)),
          CtrlObj("ReplicaSet", "b", Some(<< ControllerRef("ReplicaSet", "a") >>)) })

\* A pod whose owner references change from one version to the other: controlled
\* by ReplicaSet web-abc of Deployment web in one, released by it in the other
\* (the reference stays, no longer marked controller).  The API server may send
\* the versions in either order: a release, or an adoption.
OwnerChange ==
    Cluster({"Pod", "ReplicaSet", "Deployment"},
            { PodObj("web-abc-1", 1, Some(<< ControllerRef("ReplicaSet", "web-abc") >>),
                     Some(<< PodIP(Some("10.0.0.5")) >>)),
              PodObj("web-abc-1", 2, Some(<< OwnerRef("ReplicaSet", "web-abc", Some(FALSE)) >>),
                     Some(<< PodIP(Some("10.0.0.5")) >>)),
              CtrlObj("ReplicaSet", "web-abc", Some(<< ControllerRef("Deployment", "web") >>)),
              CtrlObj("Deployment", "web", None) },
            {}, {}, TRUE, FALSE)

\* An acyclic chain of nine ReplicaSets, r1 owned by r2 ... owned by r9, one
\* more than MAX_DEPTH, above one pod.
DeepChainLength == 9
DeepName(i) == << "r1", "r2", "r3", "r4", "r5", "r6", "r7", "r8", "r9" >>[i]
DeepChain ==
    [ChainCluster("deep-1", "10.0.0.11", ControllerRef("ReplicaSet", DeepName(1)),
        { CtrlObj("ReplicaSet", DeepName(i),
                  IF i < DeepChainLength
                  THEN Some(<< ControllerRef("ReplicaSet", DeepName(i + 1)) >>)
                  ELSE None) : i \in 1..DeepChainLength })
     EXCEPT !.fixed = {"ReplicaSet"}]

\* Objects with several owner references: before the first reference marked
\* controller come references with the flag false or unset, after it a second
\* controller reference; the objects all these references name exist.
SeveralOwners ==
    [Cluster({"Pod", "ReplicaSet", "Deployment"},
             { PodObj("tie-1", 1,
                      Some(<< OwnerRef("ReplicaSet", "decoy", None),
                              OwnerRef("ReplicaSet", "unmarked", Some(FALSE)),
                              ControllerRef("ReplicaSet", "web-abc"),
                              ControllerRef("ReplicaSet", "second") >>),
                      Some(<< PodIP(Some("10.0.0.12")) >>)),
               CtrlObj("ReplicaSet", "web-abc",
                       Some(<< OwnerRef("Deployment", "decoy-d", Some(FALSE)),
                               ControllerRef("Deployment", "web"),
                               ControllerRef("Deployment", "other") >>)),
               CtrlObj("ReplicaSet", "decoy", Some(<< ControllerRef("Deployment", "decoy-d") >>)),
               CtrlObj("ReplicaSet", "unmarked", Some(<< ControllerRef("Deployment", "decoy-d") >>)),
               CtrlObj("ReplicaSet", "second", Some(<< ControllerRef("Deployment", "other") >>)),
               CtrlObj("Deployment", "web", None),
               CtrlObj("Deployment", "decoy-d", None),
               CtrlObj("Deployment", "other", None) },
             {}, {}, TRUE, FALSE)
     EXCEPT !.fixed = {"ReplicaSet", "Deployment"}]

ResolutionClusters ==
    { DeploymentRollout, CronJobHierarchy, OwnerCycle, OwnerChange, DeepChain, SeveralOwners,
      SingleOwner("StatefulSet", "db"), SingleOwner("DaemonSet", "agent"),
      SingleOwner("ReplicaSet", "solo"), SingleOwner("Job", "once") }

\* A bare pod, a node and a service: the address shapes the three loops meet.
Addresses ==
    Cluster(IpKinds,
            { PodObj("debug", 1, None, Some(<< PodIP(Some("10.0.0.1")) >>)),
              PodObj("debug", 2, None, Some(<< PodIP(None), PodIP(Some("")), PodIP(Some("10.0.0.2")) >>)),
              NodeObj("worker-1", 1, Some(<< NodeAddress("192.168.1.7"), NodeAddress("worker-1") >>)),
              SvcObj("api", 1, Some(<< "10.1.0.10", "None" >>)) },
            {}, {}, TRUE, FALSE)

\* Objects that contribute nothing, or only the headless sentinel.
Sentinels ==
    Cluster(IpKinds,
            { Envelope("Pod", Some(NS), "pending", 1, None, None, None),
              PodObj("pending", 2, None, None),
              NodeObj("None", 1, Some(<< NodeAddress("None") >>)),
              NodeObj("None", 2, Some(<< >>)),
              NodeObj("None", 3, None),
              SvcObj("headless", 1, Some(<< "None" >>)),
              SvcObj("headless", 2, None) },
            {}, {}, TRUE, FALSE)

\* A host-network pod, its node and a service that share one address.
SharedAddress ==
    Cluster(IpKinds,
            { PodObj("hostnet", 1, None, Some(<< PodIP(Some("192.168.1.7")) >>)),
              NodeObj("worker-1", 1, Some(<< NodeAddress("192.168.1.7") >>)),
              SvcObj("api", 1, Some(<< "192.168.1.7" >>)) },
            {}, {}, TRUE, FALSE)

IndexClusters == { Addresses, Sentinels, SharedAddress }

\* Start-up against an empty cluster with a caller waiting for the sync: all is
\* well, or one kind sees transient errors, or one kind is refused, or no client
\* can be built.
StartUp(transient, denied, clientOk) == Cluster(Kinds, {}, transient, denied, clientOk, TRUE)

SyncClusters ==
    { StartUp({}, {}, TRUE), StartUp({}, {}, FALSE) }
        \cup { StartUp({k}, {}, TRUE) : k \in Kinds }
        \cup { StartUp({}, {k}, TRUE) : k \in Kinds }

\* Start-up against a cluster that holds one pod of a Deployment and does not
\* change, with a caller waiting for the sync.
WarmStart ==
    [Cluster(Kinds,
             { PodObj("web-abc-1", 1, Some(<< ControllerRef("ReplicaSet", "web-abc") >>),
                      Some(<< PodIP(Some("10.0.0.5")) >>)),
               CtrlObj("ReplicaSet", "web-abc", Some(<< ControllerRef("Deployment", "web") >>)),
               CtrlObj("Deployment", "web", None) },
             {}, {}, TRUE, TRUE)
     EXCEPT !.fixed = Kinds]

Clusters == ResolutionClusters \cup IndexClusters \cup SyncClusters \cup {WarmStart}


-----------------------------------------------------------------------------
(* What the claims compare the program against (not part of the program). *)

\* The root of the controller chain that starts at owner reference ref, looked up
\* in the stores st under namespace ns: Some(Workload) when every ancestor is
\* present and the chain ends within n hops, None otherwise.
RECURSIVE ChainRoot(_, _, _, _)
ChainRoot(st, ref, ns, n) ==
    IF n = 0 \/ ref.kind \notin CtrlKinds THEN None
    ELSE LET key == ObjectRef_within(ref.name, ns)
         IN  IF key \notin DOMAIN st[ref.kind] THEN None
             ELSE LET up == find_controller(st[ref.kind][key].owner_references)
                  IN  IF IsSome(up) THEN ChainRoot(st, Unwrap(up), ns, n - 1)
                      ELSE Some(Workload(ref.name, ns, ref.kind))

\* The number of ancestors on that chain, as far as the stores hold them.
RECURSIVE ChainLength(_, _, _, _)
ChainLength(st, ref, ns, n) ==
    IF n = 0 \/ ref.kind \notin CtrlKinds THEN 0
    ELSE LET key == ObjectRef_within(ref.name, ns)
         IN  IF key \notin DOMAIN st[ref.kind] THEN 0
             ELSE LET up == find_controller(st[ref.kind][key].owner_references)
                  IN  IF IsSome(up) THEN 1 + ChainLength(st, Unwrap(up), ns, n - 1)
                      ELSE 1

\* The Workload the specification gives a controlled pod whose chain is complete.
ExpectedRoot(st, pod) ==
    LET c == find_controller(pod.owner_references)
    IN  IF IsSome(c) THEN ChainRoot(st, Unwrap(c), namespace_or_default(pod), MaxLookups)
        ELSE None

ExpectedLength(st, pod) ==
    LET c == find_controller(pod.owner_references)
    IN  IF IsSome(c) THEN ChainLength(st, Unwrap(c), namespace_or_default(pod), MaxLookups)
        ELSE 0

-----------------------------------------------------------------------------
(* The watch stream of each kind:                                          *)
(*   watcher(api, cfg).default_backoff().modify(..).reflect(writer)        *)
(*       .applied_objects().predicate_filter(predicates::resource_version) *)

ObjsOf(k) == {o \in env.objs : o.kind = k}

\* The objects of a list as a store map; a list holds one object per key.
UniqueKeys(S) == \A a, b \in S : ObjectRef_from_obj(a) = ObjectRef_from_obj(b) => a = b
AsStore(S) ==
    [key \in {ObjectRef_from_obj(o) : o \in S} |->
        CHOOSE o \in S : ObjectRef_from_obj(o) = key]

\* The sequences that hold each element of S once.
Orders(S) ==
    {q \in [1..Cardinality(S) -> S] : \A i, j \in 1..Cardinality(S) : q[i] = q[j] => i = j}

\* A stream without the predicate filter.
predicate_passes_always(k, obj) == TRUE

\* The lists the API server may return for kind k, and the orders in which the
\* stream may yield a list (the controller tasks discard what is yielded).
Lists(k) == IF k \in env.fixed THEN {ObjsOf(k)} ELSE SUBSET ObjsOf(k)
ListOrders(k, objs) == IF k \in IpKinds THEN Orders(objs) ELSE {<< >>}

\* predicate_filter(predicates::resource_version): an object passes when its
\* resourceVersion differs from the one cached for its key.
predicate_passes(k, obj) ==
    Get(rvCache[k], ObjectRef_from_obj(obj)) # Some(obj.resource_version)

\* What an event handed to the pod loop leaves for the claims: the pod, the root
\* the stores st give it at that moment, and whether an ancestor was missing.
PodHandedOver(h, st, obj) ==
    [h EXCEPT !.handed = Some(obj),
              !.expect = ExpectedRoot(st, obj),
              !.raced = IF IsSome(find_controller(obj.owner_references))
                           /\ ~IsSome(ExpectedRoot(st, obj))
                        THEN @ \cup {ObjectRef_from_obj(obj)} ELSE @]

\* The stream yields obj to the loop body of task k (lines 245, 284, 320), unless
\* the predicate filter drops it.  The six controller tasks discard every item
\* (for_each(|_| ready(()))).
Yield(k, obj, st, h) ==
    IF k \in IpKinds /\ predicate_passes(k, obj)
    THEN /\ rvCache' = [rvCache EXCEPT ![k] = Insert(@, ObjectRef_from_obj(obj), obj.resource_version)]
         /\ cur' = [cur EXCEPT ![k] = Some(obj)]
         /\ pc' = [pc EXCEPT ![k] = IF k = "Pod" THEN "resolve" ELSE "ips"]
         /\ hist' = IF k = "Pod" THEN PodHandedOver(h, st, obj) ELSE h
    ELSE /\ UNCHANGED << rvCache, cur, pc >>
         /\ hist' = h

\* A change of a controller store ends what the claims expect of a resolution
\* that read the stores before it.
StoreChanged(k, h) == IF k \in CtrlKinds THEN [h EXCEPT !.expect = None] ELSE h

\* What a watch event leaves for the claims: the event itself (e is Some(obj)
\* for Applied(obj), None for a list or a Deleted), and whether it is the pod,
\* node or service event that was applied just before it.
Applied(e, h) ==
    [h EXCEPT !.last = e,
              !.repeat = IsSome(e) /\ e = h.last /\ Unwrap(e).kind \in IpKinds]

Polling(k) ==
    /\ k \in env.active
    /\ task[k] = "running"
    /\ pc[k] = "next"

\* Client::try_default().await? fails: the task returns before it watches.
watcher_client_error(k) ==
    /\ Polling(k)
    /\ ~env.clientOk
    /\ task' = [task EXCEPT ![k] = "done"]
    /\ pc' = [pc EXCEPT ![k] = "done"]
    /\ UNCHANGED << locks, env, store, ready, wstate, pending, rvCache, cur, walk, pod_descriptors,
                    ip_to_workload, syncState, syncIdx, lookups, hist, budget >>

\* The watcher lists (its first list, or a re-list after its cursor expired):
\* the reflector replaces the store by the list and marks it ready; the listed
\* objects are then yielded one by one.
watch_list(k, objs, order) ==
    /\ Polling(k)
    /\ env.clientOk
    /\ k \notin env.denied
    /\ wstate[k] = "Empty"
    /\ pending[k] = << >>
    /\ store' = [store EXCEPT ![k] = AsStore(objs)]
    /\ ready' = [ready EXCEPT ![k] = TRUE]
    /\ wstate' = [wstate EXCEPT ![k] = "Watching"]
    /\ pending' = [pending EXCEPT ![k] = IF k \in IpKinds THEN order ELSE << >>]
    /\ hist' = Applied(None, StoreChanged(k, hist))
    /\ UNCHANGED << locks, env, task, rvCache, pc, cur, walk, pod_descriptors, ip_to_workload,
                    syncState, syncIdx, lookups, budget >>

\* The stream yields the next object of the list that was applied.
stream_pending(k) ==
    /\ Polling(k)
    /\ pending[k] # << >>
    /\ pending' = [pending EXCEPT ![k] = Tail(@)]
    /\ Yield(k, Head(pending[k]), store, hist)
    /\ UNCHANGED << locks, env, store, ready, task, wstate, walk, pod_descriptors, ip_to_workload,
                    syncState, syncIdx, lookups, budget >>

\* Event::Applied(obj): the reflector upserts the store, the stream yields obj.
watch_applied(k, obj) ==
    /\ Polling(k)
    /\ wstate[k] = "Watching"
    /\ pending[k] = << >>
    /\ k \notin env.fixed
    /\ budget.events < MaxEvents
    /\ budget' = [budget EXCEPT !.events = @ + 1]
    /\ store' = [store EXCEPT ![k] = Insert(@, ObjectRef_from_obj(obj), obj)]
    /\ Yield(k, obj, store', Applied(Some(obj), StoreChanged(k, hist)))
    /\ UNCHANGED << locks, env, ready, task, wstate, pending, walk, pod_descriptors, ip_to_workload,
                    syncState, syncIdx, lookups >>

\* Event::Deleted(obj): the reflector removes the object from the store;
\* applied_objects() drops the event, so no loop body runs.
watch_deleted(k, key) ==
    /\ Polling(k)
    /\ wstate[k] = "Watching"
    /\ pending[k] = << >>
    /\ key \in DOMAIN store[k]
    /\ k \notin env.fixed
    /\ budget.events < MaxEvents
    /\ budget' = [budget EXCEPT !.events = @ + 1]
    /\ store' = [store EXCEPT ![k] = Remove(@, key)]
    /\ hist' = [Applied(None, StoreChanged(k, hist)) EXCEPT
                   !.stale = @ \cup {ip \in DOMAIN hist.ipWriter : hist.ipWriter[ip] = << k, key >>}]
    /\ UNCHANGED << locks, env, ready, task, wstate, pending, rvCache, pc, cur, walk, pod_descriptors,
                    ip_to_workload, syncState, syncIdx, lookups >>


\* The stream yields Err(e) for a transient failure: a dropped connection, a
\* timeout, a 5xx, or an expired resource version ("expired": the watcher falls
\* back to a list).  default_backoff() delays the next poll and passes the error
\* on.  The Pod, Node and Service loops poll with stream.try_next().await?, so
\* the task returns; the six controller tasks discard the item and poll again.
watch_error(k, e) ==
    /\ Polling(k)
    /\ env.clientOk
    /\ k \in env.transient
    /\ pending[k] = << >>
    /\ budget.errors < MaxErrors
    /\ budget' = [budget EXCEPT !.errors = @ + 1]
    /\ hist' = [hist EXCEPT !.transientHit = @ \cup {k}]
    /\ IF k \in IpKinds
       THEN /\ task' = [task EXCEPT ![k] = "done"]
            /\ pc' = [pc EXCEPT ![k] = "done"]
            /\ UNCHANGED wstate
       ELSE /\ wstate' = [wstate EXCEPT ![k] = IF e = "expired" THEN "Empty" ELSE @]
            /\ UNCHANGED << task, pc >>
    /\ UNCHANGED << locks, env, store, ready, pending, rvCache, cur, walk, pod_descriptors,
                    ip_to_workload, syncState, syncIdx, lookups >>

\* The list is refused: authorization denied, or no such resource kind.  The
\* watcher yields Err and will list again; the loops treat it as any other Err.
watch_denied(k) ==
    /\ Polling(k)
    /\ env.clientOk
    /\ k \in env.denied
    /\ wstate[k] = "Empty"
    /\ hist' = [hist EXCEPT !.degraded = IF ready[k] THEN @ ELSE @ \cup {k},
                            !.refused = @ \cup {k}]
    /\ IF k \in IpKinds
       THEN /\ task' = [task EXCEPT ![k] = "done"]
            /\ pc' = [pc EXCEPT ![k] = "done"]
       ELSE UNCHANGED << task, pc >>
    /\ UNCHANGED << locks, env, store, ready, wstate, pending, rvCache, cur, walk, pod_descriptors,
                    ip_to_workload, syncState, syncIdx, lookups, budget >>

-----------------------------------------------------------------------------
(* resolve_pod_descriptor *)

NoWalk == [name |-> "", namespace |-> "", kind |-> "", owner_ref |-> None, entry |-> None]

\* The controller owner reference of the object that owner_ref names, read from
\* the store of owner_ref's kind under the pod's namespace.
get_controller_of_owner(owner_ref, namespace) ==
    IF owner_ref.kind \in CtrlKinds
    THEN LET obj == Get(store[owner_ref.kind], ObjectRef_within(owner_ref.name, namespace))
         IN  IF IsSome(obj) THEN find_controller(Unwrap(obj).owner_references) ELSE None
    ELSE None

\* What one turn of the walk leaves for the claims: the owner reference it
\* followed, and whether the object the reference names was not in its store.
Walked(owner, namespace) ==
    [hist EXCEPT !.visited = @ \cup {<< owner.name, owner.kind >>},
                 !.missed = @ \/ (/\ owner.kind \in CtrlKinds
                                  /\ ObjectRef_within(owner.name, namespace)
                                         \notin DOMAIN store[owner.kind])]

\* A resolver that never finds a memoized entry.
pod_descriptors_get_none(key) == None

\* Lines 187-198: pod_descriptors.read().await.get(&key).cloned()
pod_descriptors_get(key) == Get(pod_descriptors, key)

\* Lines 187-209: a memoized entry is returned as it is; otherwise the walk
\* starts from the pod's own name, kind "Pod" and its controller reference.
resolve_pod_descriptor_lookup ==
    /\ pc["Pod"] = "resolve"
    /\ LET pod == Unwrap(cur["Pod"])
           entry == pod_descriptors_get(ObjectRef_from_obj(pod))
       IN  IF IsSome(entry)
           THEN /\ walk' = [NoWalk EXCEPT !.entry = entry]
                /\ pc' = [pc EXCEPT !["Pod"] = "ips"]
                /\ hist' = [hist EXCEPT !.fresh = FALSE, !.visited = {}, !.missed = FALSE]
           ELSE /\ walk' = [name |-> pod.name, namespace |-> namespace_or_default(pod),
                            kind |-> "Pod",
                            owner_ref |-> find_controller(pod.owner_references),
                            entry |-> None]
                /\ pc' = [pc EXCEPT !["Pod"] = "walk"]
                /\ hist' = [hist EXCEPT !.fresh = TRUE, !.visited = {}, !.missed = FALSE]
    /\ lookups' = 0
    /\ UNCHANGED << locks, env, store, ready, task, wstate, pending, rvCache, cur, pod_descriptors,
                    ip_to_workload, syncState, syncIdx, budget >>

\* Lines 211-218: one turn of `while let Some(owner) = owner_ref`.
resolve_pod_descriptor_walk ==
    /\ pc["Pod"] = "walk"
    /\ IsSome(walk.owner_ref)
    /\ lookups < MaxLookups
    /\ LET controller == get_controller_of_owner(Unwrap(walk.owner_ref), walk.namespace)
       IN  walk' = [walk EXCEPT
                       !.name = IF IsSome(controller) THEN Unwrap(controller).name ELSE @,
                       !.kind = IF IsSome(controller) THEN Unwrap(controller).kind ELSE @,
                       !.owner_ref = controller]
    /\ lookups' = lookups + 1
    /\ hist' = Walked(Unwrap(walk.owner_ref), walk.namespace)
    /\ UNCHANGED << locks, env, store, ready, task, wstate, pending, rvCache, pc, cur, pod_descriptors,
                    ip_to_workload, syncState, syncIdx, budget >>

\* What a memoization leaves for the claims: the controller owner reference the
\* pod had when its entry was computed.
Memoized(pod) ==
    [hist EXCEPT !.memoRef = Insert(@, ObjectRef_from_obj(pod), find_controller(pod.owner_references))]

\* Lines 220-227: the loop has ended; the Workload is built and memoized.
resolve_pod_descriptor_insert ==
    /\ pc["Pod"] = "walk"
    /\ ~IsSome(walk.owner_ref)
    /\ LET entry == Workload(walk.name, walk.namespace, walk.kind)
       IN  /\ pod_descriptors' = Insert(pod_descriptors, ObjectRef_from_obj(Unwrap(cur["Pod"])), entry)
           /\ walk' = [NoWalk EXCEPT !.entry = Some(entry)]
    /\ hist' = Memoized(Unwrap(cur["Pod"]))
    /\ pc' = [pc EXCEPT !["Pod"] = "ips"]
    /\ UNCHANGED << locks, env, store, ready, task, wstate, pending, rvCache, cur, ip_to_workload,
                    syncState, syncIdx, lookups, budget >>

-----------------------------------------------------------------------------
(* The loop bodies that write ip_to_workload. *)

Range(q) == {q[i] : i \in 1..Len(q)}

\* A write that gives w to every key of the map.
InsertAll_every_key(m, keys, w) == [x \in (DOMAIN m) \cup keys |-> w]

\* ips.entry(key).or_insert(w): a key that is present keeps its value.
InsertAll_or_insert(m, keys, w) ==
    [x \in (DOMAIN m) \cup keys |-> IF x \in DOMAIN m THEN m[x] ELSE w]

\* ips.insert(key, w) for every key of keys, under one write lock.
InsertAll(m, keys, w) == [x \in (DOMAIN m) \cup keys |-> IF x \in keys THEN w ELSE m[x]]

\* Every address an object lists, as the API server sent it.
Listed(obj) ==
    CASE obj.kind = "Pod" ->
           IF IsSome(obj.status) /\ IsSome(Unwrap(obj.status).pod_ips)
           THEN {Unwrap(e.ip) : e \in {x \in Range(Unwrap(Unwrap(obj.status).pod_ips)) : IsSome(x.ip)}}
           ELSE {}
      [] obj.kind = "Node" ->
           IF IsSome(obj.status) /\ IsSome(Unwrap(obj.status).addresses)
           THEN {a.address : a \in Range(Unwrap(Unwrap(obj.status).addresses))}
           ELSE {}
      [] obj.kind = "Service" ->
           IF IsSome(obj.spec) /\ IsSome(Unwrap(obj.spec).cluster_ips)
           THEN Range(Unwrap(Unwrap(obj.spec).cluster_ips))
           ELSE {}

\* The Workload an event stands for: what the resolution returned for a pod,
\* the Node or Service Workload of a node or a service.
EventWorkload(obj) ==
    CASE obj.kind = "Pod" -> Unwrap(walk.entry)
      [] obj.kind = "Node" -> Workload(obj.name, "node", "Node")
      [] obj.kind = "Service" -> Workload(obj.name, Unwrap(obj.namespace), "Service")

\* What an index write leaves for the claims: who wrote each key last, and the
\* Workload the handled event stands for, with each address the event listed.
Wrote(k, obj, keys) ==
    [hist EXCEPT !.ipWriter = [x \in (DOMAIN @) \cup keys |->
                                  IF x \in keys THEN << k, ObjectRef_from_obj(obj) >> ELSE @[x]],
                 !.stale = @ \ keys,
                 !.produced = @ \cup {<< ip, EventWorkload(obj) >> : ip \in Listed(obj)},
                 !.visited = IF k = "Pod" THEN {} ELSE @,
                 !.missed = IF k = "Pod" THEN FALSE ELSE @]

\* Lines 248-261: the keys a pod contributes: each pod_ips entry whose ip is Some.
pod_ip_keys(pod) ==
    IF IsSome(pod.status) /\ IsSome(Unwrap(pod.status).pod_ips)
    THEN {Unwrap(e.ip) : e \in {x \in Range(Unwrap(Unwrap(pod.status).pod_ips)) : IsSome(x.ip)}}
    ELSE {}

\* A loop that stops after the node's first address.
node_ip_keys_first_address(node) ==
    IF IsSome(node.status) /\ IsSome(Unwrap(node.status).addresses)
       /\ Unwrap(Unwrap(node.status).addresses) # << >>
    THEN {Head(Unwrap(Unwrap(node.status).addresses)).address}
    ELSE {}

\* Lines 286-298: the keys a node contributes: every address, whatever its type.
node_ip_keys(node) ==
    IF IsSome(node.status) /\ IsSome(Unwrap(node.status).addresses)
    THEN {a.address : a \in Range(Unwrap(Unwrap(node.status).addresses))}
    ELSE {}

\* Line 325: ip_str.clone().parse() with the target type String (the key type of
\* ip_to_workload): String's FromStr never fails and returns the text as it is.
parse_String(ip_str) == [ok |-> TRUE, value |-> ip_str]

\* A loop without the comparison with "None" (line 327).
service_ip_keys_with_sentinel(service) ==
    IF IsSome(service.spec) /\ IsSome(Unwrap(service.spec).cluster_ips)
    THEN {parse_String(s).value :
            s \in {x \in Range(Unwrap(Unwrap(service.spec).cluster_ips)) : parse_String(x).ok}}
    ELSE {}

\* Lines 322-345: the keys a service contributes: every cluster IP that parses
\* and is not "None".
service_ip_keys(service) ==
    IF IsSome(service.spec) /\ IsSome(Unwrap(service.spec).cluster_ips)
    THEN {parse_String(s).value :
            s \in {x \in Range(Unwrap(Unwrap(service.spec).cluster_ips)) :
                      parse_String(x).ok /\ parse_String(x).value # "None"}}
    ELSE {}

\* Lines 246-262, after the resolution: the pod's IPs are mapped to its entry.
watching_pods_write ==
    /\ pc["Pod"] = "ips"
    /\ LET pod == Unwrap(cur["Pod"])
       IN  /\ ip_to_workload' = InsertAll(ip_to_workload, pod_ip_keys(pod), Unwrap(walk.entry))
           /\ hist' = Wrote("Pod", pod, pod_ip_keys(pod))
    /\ pc' = [pc EXCEPT !["Pod"] = "next"]
    /\ cur' = [cur EXCEPT !["Pod"] = None]
    /\ walk' = NoWalk
    /\ lookups' = 0
    /\ UNCHANGED << locks, env, store, ready, task, wstate, pending, rvCache, pod_descriptors,
                    syncState, syncIdx, budget >>

\* A node loop that also memoizes the node's Workload in pod_descriptors.
watching_nodes_write_memoizing ==
    /\ pc["Node"] = "ips"
    /\ LET node == Unwrap(cur["Node"])
       IN  /\ ip_to_workload' = InsertAll(ip_to_workload, node_ip_keys(node),
                                          Workload(node.name, "node", "Node"))
           /\ pod_descriptors' = Insert(pod_descriptors, ObjectRef_from_obj(node),
                                        Workload(node.name, "node", "Node"))
           /\ hist' = Wrote("Node", node, node_ip_keys(node))
    /\ pc' = [pc EXCEPT !["Node"] = "next"]
    /\ cur' = [cur EXCEPT !["Node"] = None]
    /\ UNCHANGED << locks, env, store, ready, task, wstate, pending, rvCache, walk,
                    syncState, syncIdx, lookups, budget >>

\* Lines 285-299.
watching_nodes_write ==
    /\ pc["Node"] = "ips"
    /\ LET node == Unwrap(cur["Node"])
       IN  /\ ip_to_workload' = InsertAll(ip_to_workload, node_ip_keys(node),
                                          Workload(node.name, "node", "Node"))
           /\ hist' = Wrote("Node", node, node_ip_keys(node))
    /\ pc' = [pc EXCEPT !["Node"] = "next"]
    /\ cur' = [cur EXCEPT !["Node"] = None]
    /\ UNCHANGED << locks, env, store, ready, task, wstate, pending, rvCache, walk, pod_descriptors,
                    syncState, syncIdx, lookups, budget >>

\* Lines 321-346.
watching_services_write ==
    /\ pc["Service"] = "ips"
    /\ LET service == Unwrap(cur["Service"])
       IN  /\ ip_to_workload' = InsertAll(ip_to_workload, service_ip_keys(service),
                                          Workload(service.name, namespace_or_default(service),
                                                   "Service"))
           /\ hist' = Wrote("Service", service, service_ip_keys(service))
    /\ pc' = [pc EXCEPT !["Service"] = "next"]
    /\ cur' = [cur EXCEPT !["Service"] = None]
    /\ UNCHANGED << locks, env, store, ready, task, wstate, pending, rvCache, walk, pod_descriptors,
                    syncState, syncIdx, lookups, budget >>

-----------------------------------------------------------------------------
(* wait_for_cache_sync *)

\* A wait that forgets the last store.
SyncOrder_without_cronjobs ==
    << "Pod", "Node", "Service", "ReplicaSet", "Deployment", "StatefulSet", "DaemonSet",
       "Job" >>

\* The order in which wait_for_cache_sync awaits the stores (lines 470-487).
SyncOrder ==
    << "Pod", "Node", "Service", "ReplicaSet", "Deployment", "StatefulSet", "DaemonSet",
       "Job", "CronJob" >>

wait_for_cache_sync_call ==
    /\ env.caller
    /\ syncState = "idle"
    /\ syncState' = "waiting"
    /\ syncIdx' = 1
    /\ UNCHANGED << locks, env, store, ready, task, wstate, pending, rvCache, pc, cur, walk,
                    pod_descriptors, ip_to_workload, lookups, hist, budget >>

\* store.wait_until_ready().await?: Ok once the store is ready; Err(WriterDropped)
\* when the writer was dropped before the store became ready; suspended otherwise.
wait_until_ready ==
    /\ syncState = "waiting"
    /\ LET k == SyncOrder[syncIdx]
       IN  \/ /\ ready[k]
              /\ IF syncIdx = Len(SyncOrder)
                 THEN syncState' = "ok" /\ UNCHANGED syncIdx
                 ELSE syncIdx' = syncIdx + 1 /\ UNCHANGED syncState
           \/ /\ ~ready[k]
              /\ task[k] = "done"
              /\ syncState' = "err"
              /\ UNCHANGED syncIdx
    /\ UNCHANGED << locks, env, store, ready, task, wstate, pending, rvCache, pc, cur, walk,
                    pod_descriptors, ip_to_workload, lookups, hist, budget >>


-----------------------------------------------------------------------------
(* The index locks: each cache is an Arc<parking_lot::RwLock<AHashMap>>       *)
(* (lines 17-19, 76-77).  The actions above take each critical section as one *)
(* step; this part follows the same loops lock operation by lock operation.   *)

LockNames == {"pod_descriptors", "ip_to_workload"}
Readers == {"lookup_ip", "lookup_pod"}
Tasks == IpKinds \cup Readers

\* One step of a task: it awaits (holding what it holds), works without
\* touching a lock, acquires a lock in a mode, or drops a guard; `next` holds
\* the steps that may follow.
Op(op, lock, mode, next) == [op |-> op, lock |-> lock, mode |-> mode, next |-> next]

\* A pod loop in which the write guard of pod_descriptors outlives
\* resolve_pod_descriptor and is dropped with the guard of ip_to_workload.
watching_pods_locks_guard_kept ==
    << Op("await", "", "", {2}),
       Op("acquire", "pod_descriptors", "read", {3}),
       Op("release", "pod_descriptors", "read", {4, 7}),
       Op("work", "", "", {5}),
       Op("acquire", "pod_descriptors", "write", {6}),
       Op("work", "", "", {7}),
       Op("acquire", "ip_to_workload", "write", {8}),
       Op("release", "ip_to_workload", "write", {9}),
       Op("release", "pod_descriptors", "write", {1}) >>

\* watching_pods with resolve_pod_descriptor:
\*   1  stream.try_next().await                         line 245
\*   2  self.pod_descriptors.read()                     line 188
\*   3  the block ends, the read guard is dropped       line 195; a hit returns
\*      (lines 197-198, on to 7), a miss goes on
\*   4  the walk, with its awaits                       lines 200-218
\*   5  self.pod_descriptors.write()                    line 225
\*   6  insert; the function returns, guard dropped     lines 226-228
\*   7  self.ip_to_workload.write()                     line 247
\*   8  inserts; the loop body ends, guard dropped      lines 248-263
watching_pods_locks ==
    << Op("await", "", "", {2}),
       Op("acquire", "pod_descriptors", "read", {3}),
       Op("release", "pod_descriptors", "read", {4, 7}),
       Op("work", "", "", {5}),
       Op("acquire", "pod_descriptors", "write", {6}),
       Op("release", "pod_descriptors", "write", {7}),
       Op("acquire", "ip_to_workload", "write", {8}),
       Op("release", "ip_to_workload", "write", {1}) >>

\* watching_nodes: try_next().await (284), ip_to_workload.write() (285), the
\* inserts and the end of the loop body (286-300).
watching_nodes_locks ==
    << Op("await", "", "", {2}),
       Op("acquire", "ip_to_workload", "write", {3}),
       Op("release", "ip_to_workload", "write", {1}) >>

\* watching_services: try_next().await (320), ip_to_workload.write() (321), the
\* inserts and the end of the loop body (322-347).
watching_services_locks ==
    << Op("await", "", "", {2}),
       Op("acquire", "ip_to_workload", "write", {3}),
       Op("release", "ip_to_workload", "write", {1}) >>

\* lookup_ip and lookup_pod, called again and again by the consumers: a short
\* read lock on the index, no suspension while it is held.
lookup_ip_locks ==
    << Op("await", "", "", {2}),
       Op("acquire", "ip_to_workload", "read", {3}),
       Op("release", "ip_to_workload", "read", {1}) >>

lookup_pod_locks ==
    << Op("await", "", "", {2}),
       Op("acquire", "pod_descriptors", "read", {3}),
       Op("release", "pod_descriptors", "read", {1}) >>

Program(t) ==
    CASE t = "Pod" -> watching_pods_locks
      [] t = "Node" -> watching_nodes_locks
      [] t = "Service" -> watching_services_locks
      [] t = "lookup_ip" -> lookup_ip_locks
      [] t = "lookup_pod" -> lookup_pod_locks

Steps(t) == 1..Len(Program(t))

LocksFree ==
    [at |-> [t \in Tasks |-> 1],
     writer |-> [l \in LockNames |-> None],
     readers |-> [l \in LockNames |-> {}],
     queue |-> [l \in LockNames |-> << >>]]

Current(t) == Program(t)[locks.at[t]]
Holds(t, l) == locks.writer[l] = Some(t) \/ t \in locks.readers[l]
Queued(t, l) == t \in Range(locks.queue[l])

\* RwLock: a writer excludes everyone, readers exclude writers.
Compatible(l, mode) ==
    /\ locks.writer[l] = None
    /\ mode = "write" => locks.readers[l] = {}

\* The awaited item arrives: the next watch event, or the next call of a lookup.
task_await(t, n) ==
    /\ Current(t).op = "await"
    /\ n \in Current(t).next
    /\ locks' = [locks EXCEPT !.at[t] = n]
    /\ UNCHANGED dataVars

\* Code between two lock operations.
task_work(t, n) ==
    /\ Current(t).op = "work"
    /\ n \in Current(t).next
    /\ locks' = [locks EXCEPT !.at[t] = n]
    /\ UNCHANGED dataVars

\* read() / write() is called: the task queues for the lock.  parking_lot's
\* RwLock is task-fair: a task that waits is served before those that come
\* after it, readers behind a waiting writer included.
lock_request(t) ==
    /\ Current(t).op = "acquire"
    /\ ~Queued(t, Current(t).lock)
    /\ locks' = [locks EXCEPT !.queue[Current(t).lock] = Append(@, t)]
    /\ UNCHANGED dataVars

\* read() / write() returns the guard.
lock_grant(t, n) ==
    /\ Current(t).op = "acquire"
    /\ n \in Current(t).next
    /\ LET l == Current(t).lock
           mode == Current(t).mode
       IN  /\ locks.queue[l] # << >>
           /\ Head(locks.queue[l]) = t
           /\ Compatible(l, mode)
           /\ locks' = [locks EXCEPT !.queue[l] = Tail(@),
                                     !.writer[l] = IF mode = "write" THEN Some(t) ELSE @,
                                     !.readers[l] = IF mode = "read" THEN @ \cup {t} ELSE @,
                                     !.at[t] = n]
    /\ UNCHANGED dataVars

\* The guard goes out of scope.
lock_release(t, n) ==
    /\ Current(t).op = "release"
    /\ n \in Current(t).next
    /\ LET l == Current(t).lock
       IN  locks' = [locks EXCEPT !.writer[l] = IF @ = Some(t) THEN None ELSE @,
                                  !.readers[l] = @ \ {t},
                                  !.at[t] = n]
    /\ UNCHANGED dataVars

-----------------------------------------------------------------------------
(* The system. *)

\* CacheManager::new (lines 54-91): empty stores and indexes, nine tasks spawned.
Init ==
    /\ env \in Clusters
    /\ store = [k \in Kinds |-> EmptyMap]
    /\ ready = [k \in Kinds |-> FALSE]
    /\ task = [k \in Kinds |-> "running"]
    /\ wstate = [k \in Kinds |-> "Empty"]
    /\ pending = [k \in Kinds |-> << >>]
    /\ rvCache = [k \in IpKinds |-> EmptyMap]
    /\ pc = [k \in Kinds |-> "next"]
    /\ cur = [k \in IpKinds |-> None]
    /\ walk = NoWalk
    /\ pod_descriptors = EmptyMap
    /\ ip_to_workload = EmptyMap
    /\ syncState = "idle"
    /\ syncIdx = 1
    /\ lookups = 0
    /\ hist = [degraded |-> {}, transientHit |-> {}, ipWriter |-> EmptyMap, stale |-> {},
               handed |-> None, expect |-> None, fresh |-> FALSE, raced |-> {},
               visited |-> {}, missed |-> FALSE, produced |-> {}, last |-> None,
               repeat |-> FALSE, memoRef |-> EmptyMap, refused |-> {}]
    /\ budget = [events |-> 0, errors |-> 0]
    /\ locks = LocksFree

Next ==
    \/ \E k \in Kinds : watcher_client_error(k)
    \/ \E k \in Kinds : \E objs \in Lists(k) :
          UniqueKeys(objs) /\ \E order \in ListOrders(k, objs) : watch_list(k, objs, order)
    \/ \E k \in Kinds : stream_pending(k)
    \/ \E k \in Kinds : \E obj \in ObjsOf(k) : watch_applied(k, obj)
    \/ \E k \in Kinds : \E key \in DOMAIN store[k] : watch_deleted(k, key)
    \/ \E k \in Kinds : \E e \in {"transient", "expired"} : watch_error(k, e)
    \/ \E k \in Kinds : watch_denied(k)
    \/ resolve_pod_descriptor_lookup
    \/ resolve_pod_descriptor_walk
    \/ resolve_pod_descriptor_insert
    \/ watching_pods_write
    \/ watching_nodes_write
    \/ watching_services_write
    \/ wait_for_cache_sync_call
    \/ wait_until_ready

Spec == Init /\ [][Next]_vars

\* Each task is scheduled again and again by the runtime, and the API server
\* answers each list; when, and whether, it sends watch events or transient
\* errors is left open.
TaskStep(k) ==
    \/ watcher_client_error(k)
    \/ \E objs \in Lists(k) :
          UniqueKeys(objs) /\ \E order \in ListOrders(k, objs) : watch_list(k, objs, order)
    \/ stream_pending(k)
    \/ watch_denied(k)
    \/ (k = "Pod" /\ (\/ resolve_pod_descriptor_lookup
                      \/ resolve_pod_descriptor_walk
                      \/ resolve_pod_descriptor_insert
                      \/ watching_pods_write))
    \/ (k = "Node" /\ watching_nodes_write)
    \/ (k = "Service" /\ watching_services_write)

InitSync == Init /\ env \in SyncClusters

NextSync ==
    \/ \E k \in Kinds : watcher_client_error(k)
    \/ \E k \in Kinds : watch_list(k, {}, << >>)
    \/ \E k \in Kinds : \E e \in {"transient", "expired"} : watch_error(k, e)
    \/ \E k \in Kinds : watch_denied(k)
    \/ wait_for_cache_sync_call
    \/ wait_until_ready

FairSpec ==
    /\ InitSync /\ [][NextSync]_vars
    /\ \A k \in Kinds : WF_vars(TaskStep(k))
    /\ WF_vars(wait_until_ready)

\* The lock-level system: the three loops and the two lookups, each running its
\* lock operations, against a cluster that stays as it is.
LockInit == Init /\ env = StartUp({}, {}, TRUE)

LockNext ==
    \/ \E t \in Tasks : \E n \in Steps(t) : task_await(t, n)
    \/ \E t \in Tasks : \E n \in Steps(t) : task_work(t, n)
    \/ \E t \in Tasks : lock_request(t)
    \/ \E t \in Tasks : \E n \in Steps(t) : lock_grant(t, n)
    \/ \E t \in Tasks : \E n \in Steps(t) : lock_release(t, n)

\* A task that is not awaiting is scheduled again and again (the threads of the
\* runtime keep running); when the awaited events and calls arrive is left open.
LockSpec ==
    /\ LockInit /\ [][LockNext]_vars
    /\ \A t \in Tasks :
          /\ WF_vars(\E n \in Steps(t) : task_work(t, n))
          /\ WF_vars(lock_request(t))
          /\ WF_vars(\E n \in Steps(t) : lock_grant(t, n))
          /\ WF_vars(\E n \in Steps(t) : lock_release(t, n))

-----------------------------------------------------------------------------
(* The claims. *)

\* The strings of the model's clusters that parse as an IPv4 or IPv6 address.
IpLiterals ==
    { "10.0.0.1", "10.0.0.2", "10.0.0.5", "10.0.0.7", "10.0.0.8", "10.0.0.9", "10.0.0.11", "10.0.0.12",
      "10.1.0.10", "192.168.1.7" }
IsIpLiteral(s) == s \in IpLiterals

\* C1 -- root resolution: a pod resolved without a memoized entry, while every
\* ancestor of its controller chain is in its store under the pod's namespace,
\* gets the Workload of the last ancestor of the chain, in the pod's namespace;
\* chains of length one included.
C1_RootResolution ==
    (pc["Pod"] = "ips" /\ hist.fresh /\ IsSome(hist.expect))
        => walk.entry = hist.expect

\* C2 -- delete completeness: once a Deleted event for a pod, node or service
\* is applied, no IP that object had contributed is a key of ip_to_workload,
\* unless another object has associated the IP since.
C2_DeleteCompleteness == hist.stale \cap DOMAIN ip_to_workload = {}

\* C3 -- the ancestor-before-child race converges: a pod that was once handled
\* while an ancestor was missing, and whose event is handled again once the
\* whole chain is in the stores, is looked up (by pod and by each of its IPs)
\* as the root controller.  Stated for chains of two ancestors or more, the
\* claim's example (Pod -> ReplicaSet -> Deployment).
C3_RaceConverges ==
    (/\ pc["Pod"] = "next"
     /\ IsSome(hist.handed)
     /\ IsSome(hist.expect)
     /\ ObjectRef_from_obj(Unwrap(hist.handed)) \in hist.raced
     /\ ExpectedLength(store, Unwrap(hist.handed)) >= 2)
        => /\ Get(pod_descriptors, ObjectRef_from_obj(Unwrap(hist.handed))) = hist.expect
           /\ \A ip \in pod_ip_keys(Unwrap(hist.handed)) :
                 Get(ip_to_workload, ip) = hist.expect

\* C4 -- chain termination: a resolution makes at most MAX_DEPTH store lookups,
\* whatever the stores hold, cycles of controller references included.
C4_ChainTermination == lookups <= MAX_DEPTH

\* C5 -- transient errors never stop a reflector: the task of a kind that has
\* seen a transient watch error is still running.
C5_TransientSurvived == \A k \in hist.transientHit : task[k] = "running"

\* C6 -- ready gate: wait_for_cache_sync has returned success only if all nine
\* stores have their ready flag set.
C6_ReadyGate == syncState = "ok" => \A k \in Kinds : ready[k]

\* C6's case: the wait has returned success.
C6_Witness == syncState = "ok" /\ syncIdx = Len(SyncOrder) /\ \A k \in Kinds : ready[k]

\* C7 -- a kind degraded at start-up fails the sync: when the reflector of any
\* kind is refused before its first list completes, a caller waiting in
\* wait_for_cache_sync eventually gets an error.
C7_DegradedSyncFails ==
    (hist.degraded # {} /\ syncState = "waiting") ~> (syncState = "err")

\* C8 -- the sentinel is never a key: ip_to_workload has no key "None".
C8_NoSentinelKey == "None" \notin DOMAIN ip_to_workload

\* C9 -- invalid IP literals are ignored: every key of ip_to_workload parses as
\* an IPv4 or IPv6 address.
C9_OnlyIpLiterals == \A ip \in DOMAIN ip_to_workload : IsIpLiteral(ip)

\* C10 -- pod IP policy: the pod loop maps exactly the pod_ips entries whose ip
\* is present and not empty to the pod's resolved Workload, and adds no other
\* key (the empty string never becomes a key).
C10_PodIpPolicy ==
    [][(pc["Pod"] = "ips" /\ pc'["Pod"] = "next") =>
          LET pod == Unwrap(cur["Pod"])
              listed == IF IsSome(pod.status) /\ IsSome(Unwrap(pod.status).pod_ips)
                        THEN Range(Unwrap(Unwrap(pod.status).pod_ips)) ELSE {}
              present == {Unwrap(e.ip) : e \in {x \in listed : IsSome(x.ip) /\ x.ip # Some("")}}
          IN  ip_to_workload' = InsertAll(ip_to_workload, present, Unwrap(walk.entry))]_vars

\* C11 -- service IP policy: a handled service event maps every entry of
\* spec.clusterIPs other than the literal "None" to Workload{service name,
\* service namespace, "Service"} and changes nothing else; a service whose
\* clusterIPs is ["None"] or absent leaves ip_to_workload as it was.
C11_ServiceIpPolicy ==
    [][(pc["Service"] = "ips" /\ pc'["Service"] = "next") =>
          LET service == Unwrap(cur["Service"])
              listed == IF IsSome(service.spec) /\ IsSome(Unwrap(service.spec).cluster_ips)
                        THEN Range(Unwrap(Unwrap(service.spec).cluster_ips)) ELSE {}
              kept == listed \ {"None"}
              w == Workload(service.name, Unwrap(service.namespace), "Service")
          IN  /\ DOMAIN ip_to_workload' = DOMAIN ip_to_workload \cup kept
              /\ \A ip \in kept : ip_to_workload'[ip] = w
              /\ \A ip \in DOMAIN ip_to_workload \ kept : ip_to_workload'[ip] = ip_to_workload[ip]
              /\ (kept = {} => ip_to_workload' = ip_to_workload)]_vars

\* C11's case: the service api, clusterIPs ["10.1.0.10", "None"], has been
\* handled: its address is mapped and the sentinel is not.
C11_Witness ==
    /\ pc["Service"] = "next"
    /\ Get(rvCache["Service"], << Some(NS), "api" >>) = Some(1)
    /\ Get(ip_to_workload, "10.1.0.10") = Some(Workload("api", NS, "Service"))
    /\ "None" \notin DOMAIN ip_to_workload

\* C12 -- node IP policy: a handled node event maps every
\* status.addresses[*].address to Workload{node name, "node", "Node"} and
\* changes nothing else; a node whose addresses are empty or absent leaves
\* ip_to_workload as it was.
C12_NodeIpPolicy ==
    [][(pc["Node"] = "ips" /\ pc'["Node"] = "next") =>
          LET node == Unwrap(cur["Node"])
              listed == IF IsSome(node.status) /\ IsSome(Unwrap(node.status).addresses)
                        THEN {a.address : a \in Range(Unwrap(Unwrap(node.status).addresses))}
                        ELSE {}
              w == Workload(node.name, "node", "Node")
          IN  /\ DOMAIN ip_to_workload' = DOMAIN ip_to_workload \cup listed
              /\ \A ip \in listed : ip_to_workload'[ip] = w
              /\ \A ip \in DOMAIN ip_to_workload \ listed : ip_to_workload'[ip] = ip_to_workload[ip]
              /\ (listed = {} => ip_to_workload' = ip_to_workload)]_vars

\* C12's case: worker-1 has been handled and both of its addresses are mapped
\* to the node's Workload.
C12_Witness ==
    /\ pc["Node"] = "next"
    /\ Get(ip_to_workload, "192.168.1.7") = Some(Workload("worker-1", "node", "Node"))
    /\ Get(ip_to_workload, "worker-1") = Some(Workload("worker-1", "node", "Node"))

\* The pod has no owner reference marked controller = true.
NoControllerRef(pod) ==
    \/ ~IsSome(pod.owner_references)
    \/ \A r \in Range(Unwrap(pod.owner_references)) : r.controller # Some(TRUE)

\* C13 -- bare pod: once the event of a pod with no owner reference marked
\* controller = true has been handled, the pod is looked up as Workload{pod
\* name, pod namespace, "Pod"}, whatever the controller stores hold, and so is
\* each of its pod IPs (as long as the pod is the last writer of the IP).
C13_BarePod ==
    (/\ pc["Pod"] = "next"
     /\ IsSome(hist.handed)
     /\ NoControllerRef(Unwrap(hist.handed)))
        => LET pod == Unwrap(hist.handed)
               bare == Workload(pod.name, Unwrap(pod.namespace), "Pod")
           IN  /\ Get(pod_descriptors, ObjectRef_from_obj(pod)) = Some(bare)
               /\ \A ip \in pod_ip_keys(pod) :
                     Get(hist.ipWriter, ip) = Some(<< "Pod", ObjectRef_from_obj(pod) >>)
                        => Get(ip_to_workload, ip) = Some(bare)

\* The Workload that the object key of kind k writes for its addresses.
WrittenBy(k, key) ==
    CASE k = "Pod" -> Get(pod_descriptors, key)
      [] k = "Node" -> Some(Workload(key[2], "node", "Node"))
      [] k = "Service" -> Some(Workload(key[2], Unwrap(key[1]), "Service"))

\* C14 -- last writer wins: in every state the Workload stored for an IP is the
\* one written by the pod, node or service event that contributed the IP most
\* recently, whatever the interleaving of the three loops.
C14_LastWriterWins ==
    /\ DOMAIN ip_to_workload = DOMAIN hist.ipWriter
    /\ \A ip \in DOMAIN ip_to_workload :
          Some(ip_to_workload[ip]) = WrittenBy(hist.ipWriter[ip][1], hist.ipWriter[ip][2])

\* C14's case: the host-network pod and the service have written 192.168.1.7,
\* and the node, which wrote it last, holds it.
C14_Witness ==
    /\ \A k \in {"Pod", "Service"} : pc[k] = "next" /\ rvCache[k] # EmptyMap
    /\ Get(hist.ipWriter, "192.168.1.7") = Some(<< "Node", << None, "worker-1" >> >>)
    /\ Get(pod_descriptors, << Some(NS), "hostnet" >>) = Some(Workload("hostnet", NS, "Pod"))
    /\ Get(ip_to_workload, "192.168.1.7") = Some(Workload("worker-1", "node", "Node"))

\* C15 -- resolution soundness: the Workload a resolution memoizes for pod p is
\* either {p's name, "Pod"} for a p without controller owner reference, or has
\* the name and kind of an object that a chain of controller owner references,
\* as the resolution read them from the stores, leads to from p.  The last
\* reference of the chain counts even if its object is not in its store.
C15_ResolutionSound ==
    (pc["Pod"] = "ips" /\ hist.fresh)
        => LET pod == Unwrap(cur["Pod"])
               w == pod_descriptors[ObjectRef_from_obj(pod)]
           IN  \/ NoControllerRef(pod) /\ w.name = pod.name /\ w.kind = "Pod"
               \/ << w.name, w.kind >> \in hist.visited

\* C18 -- memoization skipped on an incomplete walk: a resolution that stopped
\* because an owner on the chain was not in its store leaves no entry for the
\* pod in pod_descriptors.
C18_NoMemoOnIncompleteWalk ==
    (pc["Pod"] = "ips" /\ hist.fresh /\ hist.missed)
        => ObjectRef_from_obj(Unwrap(cur["Pod"])) \notin DOMAIN pod_descriptors

\* C16 -- no fabricated index values: each value of ip_to_workload is, for its
\* key, the Workload a pod resolution returned for a handled pod event that
\* listed the IP, or the Node or Service Workload of a handled node or service
\* event that listed the IP.
C16_NoFabricatedValues ==
    \A ip \in DOMAIN ip_to_workload : << ip, ip_to_workload[ip] >> \in hist.produced

\* C16's case: a pod, a node and a service have each written an address.
C16_Witness ==
    /\ Get(ip_to_workload, "10.0.0.1") = Some(Workload("debug", NS, "Pod"))
    /\ Get(ip_to_workload, "192.168.1.7") = Some(Workload("worker-1", "node", "Node"))
    /\ Get(ip_to_workload, "10.1.0.10") = Some(Workload("api", NS, "Service"))

\* C17 -- event idempotence: a pod, node or service watch event that is applied
\* again right after it was applied and handled, with no other event in
\* between, changes neither the store nor pod_descriptors nor ip_to_workload,
\* and starts no run of a loop body: the state is the one reached by applying
\* the event once.
C17_EventIdempotence ==
    [][(budget'.events = budget.events + 1 /\ hist'.repeat)
          => /\ store' = store
             /\ pod_descriptors' = pod_descriptors
             /\ ip_to_workload' = ip_to_workload
             /\ pc' = pc
             /\ cur' = cur]_vars

\* C17's case: a pod event has been applied twice in a row, the pod resolved and
\* its IP written by the first.
C17_Witness ==
    /\ hist.repeat
    /\ IsSome(hist.last)
    /\ Unwrap(hist.last).kind = "Pod"
    /\ ObjectRef_from_obj(Unwrap(hist.last)) \in DOMAIN pod_descriptors
    /\ pod_ip_keys(Unwrap(hist.last)) # {}
    /\ pod_ip_keys(Unwrap(hist.last)) \subseteq DOMAIN ip_to_workload

\* C19 -- memo stability: no step changes or removes the entry pod_descriptors
\* holds for a pod key, unless the step deletes the pod; so an entry keeps its
\* value in every later state up to the pod's deletion.
C19_MemoStability ==
    [][\A key \in DOMAIN pod_descriptors :
          (key \in DOMAIN store["Pod"] => key \in DOMAIN store'["Pod"])
             => Get(pod_descriptors', key) = Some(pod_descriptors[key])]_vars

\* C19's case: a later event of a memoized pod has been resolved, at a moment
\* when the stores give the pod another root than the entry, and the entry is
\* what it was.
C19_Witness ==
    /\ pc["Pod"] = "ips"
    /\ ~hist.fresh
    /\ IsSome(hist.expect)
    /\ ObjectRef_from_obj(Unwrap(cur["Pod"])) \in DOMAIN pod_descriptors
    /\ Some(pod_descriptors[ObjectRef_from_obj(Unwrap(cur["Pod"]))]) # hist.expect
    /\ walk.entry = Some(pod_descriptors[ObjectRef_from_obj(Unwrap(cur["Pod"]))])

\* C20 -- re-resolution on owner change: once a pod event has been handled whose
\* controller owner reference differs from the one the pod had when its
\* memoized entry was computed, pod_descriptors and the pod's IPs in
\* ip_to_workload hold the Workload resolved from the new reference: the pod
\* itself when it has no controller any more, the root of the new chain when
\* the stores hold the whole chain (stated for chains of two ancestors or
\* more).
C20_ReResolution ==
    (/\ pc["Pod"] = "next"
     /\ IsSome(hist.handed)
     /\ ObjectRef_from_obj(Unwrap(hist.handed)) \in DOMAIN hist.memoRef
     /\ hist.memoRef[ObjectRef_from_obj(Unwrap(hist.handed))]
           # find_controller(Unwrap(hist.handed).owner_references)
     /\ \/ NoControllerRef(Unwrap(hist.handed))
        \/ IsSome(hist.expect) /\ ExpectedLength(store, Unwrap(hist.handed)) >= 2)
        => LET pod == Unwrap(hist.handed)
               want == IF NoControllerRef(pod)
                       THEN Some(Workload(pod.name, Unwrap(pod.namespace), "Pod"))
                       ELSE hist.expect
           IN  /\ Get(pod_descriptors, ObjectRef_from_obj(pod)) = want
               /\ \A ip \in pod_ip_keys(pod) :
                     Get(hist.ipWriter, ip) = Some(<< "Pod", ObjectRef_from_obj(pod) >>)
                        => Get(ip_to_workload, ip) = want

\* C21 -- pod deletion evicts the memo: pod_descriptors has no entry for a pod
\* that a Deleted event has removed from the Pod store, so that a pod created
\* later under the same namespace and name is resolved from its own owner
\* references.  (A pod is in the Pod store from its first event to its
\* deletion, and the stream of the pod task never lists a second time.)
C21_DeletionEvictsMemo == DOMAIN pod_descriptors \subseteq DOMAIN store["Pod"]

\* The ancestor at depth d of the chain that starts at owner reference ref (the
\* pod's controller is at depth 1), as the stores st hold the chain.
RECURSIVE AncestorAt(_, _, _, _)
AncestorAt(st, ref, ns, d) ==
    IF d <= 1 THEN Workload(ref.name, ns, ref.kind)
    ELSE AncestorAt(st,
                    Unwrap(find_controller(st[ref.kind][ObjectRef_within(ref.name, ns)].owner_references)),
                    ns, d - 1)

\* C22 -- depth bound result: a pod resolved without a memoized entry, whose
\* acyclic controller chain is whole in the stores and longer than MAX_DEPTH,
\* gets the Workload of the ancestor at depth MAX_DEPTH, not that of the end of
\* the chain.
C22_DepthBoundResult ==
    (/\ pc["Pod"] = "ips"
     /\ hist.fresh
     /\ IsSome(hist.expect)
     /\ ExpectedLength(store, Unwrap(cur["Pod"])) > MAX_DEPTH)
        => LET pod == Unwrap(cur["Pod"])
           IN  walk.entry = Some(AncestorAt(store, Unwrap(find_controller(pod.owner_references)),
                                            Unwrap(pod.namespace), MAX_DEPTH))

\* C23 -- fatal errors terminate the worker: the task of each kind whose watch
\* has reported authorization denied or no such resource kind has returned (and
\* with it released its store writer), while the tasks of the other kinds are
\* still running.
C23_FatalTerminates ==
    /\ \A k \in hist.refused : task[k] = "done"
    /\ hist.refused # {} => \A k \in Kinds \ env.denied : task[k] = "running"

\* C24 -- warm after sync: once wait_for_cache_sync has returned success and
\* the pod loop has handled the whole initial pod list, each IP of each pod of
\* that list whose controller chain is whole in the initial lists of the
\* controller kinds is looked up as the root controller of the chain, whatever
\* the order in which the nine initial lists arrived.
C24_WarmAfterSync ==
    (syncState = "ok" /\ pc["Pod"] = "next" /\ pending["Pod"] = << >>)
        => \A key \in DOMAIN store["Pod"] :
              LET pod == store["Pod"][key]
              IN  IsSome(ExpectedRoot(store, pod))
                     => \A ip \in pod_ip_keys(pod) :
                           Get(ip_to_workload, ip) = ExpectedRoot(store, pod)

\* The owner references of an object, and the first of a list of references
\* whose controller flag is true.
RefsOf(obj) == IF IsSome(obj.owner_references) THEN Unwrap(obj.owner_references) ELSE << >>
RECURSIVE FirstController(_)
FirstController(refs) ==
    IF refs = << >> THEN None
    ELSE IF Head(refs).controller = Some(TRUE) THEN Some(Head(refs))
         ELSE FirstController(Tail(refs))

\* C25 -- controller tie-break: at every hop of the walk, the pod and each
\* ancestor, the resolver follows the first owner reference, in list order,
\* whose controller flag is true; references whose flag is false or unset
\* change neither the reference followed nor the name and kind taken.
C25_ControllerTieBreak ==
    [][/\ (pc["Pod"] = "resolve" /\ pc'["Pod"] = "walk")
            => walk'.owner_ref = FirstController(RefsOf(Unwrap(cur["Pod"])))
       /\ (pc["Pod"] = "walk" /\ lookups' = lookups + 1)
            => LET owner == Unwrap(walk.owner_ref)
                   obj == Get(store[owner.kind], ObjectRef_within(owner.name, walk.namespace))
                   up == IF IsSome(obj) THEN FirstController(RefsOf(Unwrap(obj))) ELSE None
               IN  /\ walk'.owner_ref = up
                   /\ IsSome(up) => /\ walk'.name = Unwrap(up).name
                                     /\ walk'.kind = Unwrap(up).kind]_vars

\* C25's case: the pod with four owner references, under a ReplicaSet with
\* three, has been resolved to Deployment web, the first controller reference
\* of the first controller reference.
C25_Witness ==
    /\ env = SeveralOwners
    /\ Get(pod_descriptors, << Some(NS), "tie-1" >>) = Some(Workload("web", NS, "Deployment"))
    /\ Get(ip_to_workload, "10.0.0.12") = Some(Workload("web", NS, "Deployment"))

\* C26 -- index write frame: a step of one of the six controller tasks changes
\* neither pod_descriptors nor ip_to_workload, and a step of the node or the
\* service task does not change pod_descriptors: pod_descriptors changes only
\* when the pod loop memoizes a resolution, ip_to_workload only when the pod,
\* node or service loop writes the addresses of the object it handles.
C26_IndexWriteFrame ==
    [][/\ (\E k \in CtrlKinds : \/ store'[k] # store[k]
                                 \/ ready'[k] # ready[k]
                                 \/ wstate'[k] # wstate[k]
                                 \/ task'[k] # task[k])
            => pod_descriptors' = pod_descriptors /\ ip_to_workload' = ip_to_workload
       /\ (\E k \in {"Node", "Service"} : \/ store'[k] # store[k]
                                           \/ pc'[k] # pc[k]
                                           \/ pending'[k] # pending[k]
                                           \/ cur'[k] # cur[k])
            => pod_descriptors' = pod_descriptors
       /\ pod_descriptors' # pod_descriptors
            => pc["Pod"] = "walk" /\ pc'["Pod"] = "ips"
       /\ ip_to_workload' # ip_to_workload
            => \E k \in IpKinds : pc[k] = "ips" /\ pc'[k] = "next"]_vars

\* C26's case: a controller event has been applied after a pod was resolved and
\* its IP written, and both indexes still hold the pod's Workload.
C26_Witness ==
    /\ IsSome(hist.last)
    /\ Unwrap(hist.last).kind \in CtrlKinds
    /\ pc["Pod"] = "next"
    /\ pod_descriptors # EmptyMap
    /\ \A key \in DOMAIN pod_descriptors :
          \E ip \in DOMAIN ip_to_workload : ip_to_workload[ip] = pod_descriptors[key]

\* No task holds both index locks.
NoBothLocks ==
    \A t \in Tasks : ~(Holds(t, "pod_descriptors") /\ Holds(t, "ip_to_workload"))

\* A task that awaits its next watch event (or call) holds no index lock.
NoLockWhileAwaiting ==
    \A t \in Tasks : Current(t).op = "await" => \A l \in LockNames : ~Holds(t, l)

\* When a task waits for a lock, some task can take a lock step: a waiting
\* task can be served, or a holder is about to drop its guard.
NoLockDeadlock ==
    (\E t \in Tasks : \E l \in LockNames : Queued(t, l))
        => \E t \in Tasks :
              \/ /\ Current(t).op = "acquire"
                 /\ locks.queue[Current(t).lock] # << >>
                 /\ Head(locks.queue[Current(t).lock]) = t
                 /\ Compatible(Current(t).lock, Current(t).mode)
              \/ Current(t).op = "release" /\ Holds(t, Current(t).lock)

\* C27 -- lock discipline: no task ever holds the lock of pod_descriptors and
\* the lock of ip_to_workload at once, and none holds either while it awaits
\* its next watch event; under every interleaving of the pod, node and service
\* loops with concurrent lookups no state is deadlocked on the index locks,
\* and every task that waits for a lock gets it.
C27_LockDiscipline ==
    /\ [](NoBothLocks /\ NoLockWhileAwaiting /\ NoLockDeadlock)
    /\ \A t \in Tasks : \A l \in LockNames : Queued(t, l) ~> Holds(t, l)

\* C27's case: the pod loop holds the write lock of ip_to_workload while the
\* node loop, the service loop and a lookup wait for it, and a lookup reads
\* pod_descriptors.
C27_Witness ==
    /\ locks.writer["ip_to_workload"] = Some("Pod")
    /\ Range(locks.queue["ip_to_workload"]) = {"Node", "Service", "lookup_ip"}
    /\ "lookup_pod" \in locks.readers["pod_descriptors"]

=============================================================================
